---------------------------- MODULE Spec2Model ----------------------------
(***************************************************************************)
(* Model of the accounting-PDF extraction service (src/app).               *)
(*                                                                         *)
(* Texts the code inspects character by character (Mascara_Contabil) are   *)
(* sequences of one-character strings; texts it only compares or copies    *)
(* (Tipo, Periodo, Conta, Pagina_Origem) are strings.  Monetary values are *)
(* integers counting cents (1.0 is 100).  The values drawn as inputs are   *)
(* multiples of 0.50: each of them, and each sum or difference of a few of *)
(* them, is an exact binary float, so the float arithmetic of the code is  *)
(* integer arithmetic on them.                                             *)
(***************************************************************************)
EXTENDS Integers, Sequences, FiniteSets, TLC

VARIABLES
    rows,            \* the row sequence a function is applied to; in a request,
                     \* the local "rows" of extract_endpoint
    errors,          \* what the latest call of validar_aritmetica returned
    errors_prev,     \* what the call before it returned
    dedup1,          \* deduplicate(rows)
    dedup2,          \* deduplicate(deduplicate(rows))
    pc,              \* the step reached
    pdf_groups,      \* a request: per PDF, the labels of its pages
    worker,          \* per PDF, the locals of its _process_pdf_pages call
    collected,       \* number of PDFs whose results the endpoint has taken
    all_extractions, \* the locals of extract_endpoint
    all_labels,
    all_errors,
    xlsx_rows,       \* the arguments build_xlsx was called with
    xlsx_errors,
    response,        \* 0 while the request runs, then its HTTP status
    extracted,       \* per page label, what extract_page returned for it
    finished,        \* the PDFs whose worker has ended, in that order
    contexts,        \* per page label, the context extract_page was given
    extract_attempt, \* the loop variable "attempt" of extract_page
    gemini_api_key,  \* GEMINI_API_KEY in the environment of extract_page
    calls,           \* what each call of the model by extract_page gave
    waits,           \* the seconds extract_page slept, in order
    page_result,     \* what extract_page returned
    exception,       \* the exception extract_page raised ("" if none)
    mask_call,       \* whether gerar_mascaras has been called
    mask_run,        \* what that call met: the API key, the responses
    masked,          \* the rows after the mask step
    raw_value,       \* the argument of normalize_number
    number           \* what normalize_number returned for it

fn_vars == <<errors, errors_prev, dedup1, dedup2>>
req_vars == <<pdf_groups, worker, collected, all_extractions, all_labels,
              all_errors, xlsx_rows, xlsx_errors, response, extracted,
              finished, contexts>>
ext_vars == <<extract_attempt, gemini_api_key, calls, waits, page_result, exception>>
mask_vars == <<mask_call, mask_run, masked>>
num_vars == <<raw_value, number>>
vars == <<rows, fn_vars, pc, req_vars, mask_vars, num_vars, ext_vars>>

-----------------------------------------------------------------------------
(* Bounds of the model *)

\* longest row sequence handed to validar_aritmetica / deduplicate
MaxRows == 3

-----------------------------------------------------------------------------
(* Generic helpers: Python built-ins the code relies on *)

\* str.count(c)
Count(s, c) == Cardinality({i \in 1..Len(s) : s[i] = c})

\* str.startswith(prefix)
StartsWith(s, prefix) ==
    /\ Len(s) >= Len(prefix)
    /\ SubSeq(s, 1, Len(prefix)) = prefix

\* characters str.strip() removes
Whitespace == {" "}

\* str.strip(): drop leading and trailing whitespace
RECURSIVE Strip(_)
Strip(s) ==
    IF s = <<>> THEN <<>>
    ELSE IF s[1] \in Whitespace THEN Strip(Tail(s))
    ELSE IF s[Len(s)] \in Whitespace THEN Strip(SubSeq(s, 1, Len(s) - 1))
    ELSE s

\* abs()
Abs(x) == IF x < 0 THEN -x ELSE x

\* sum(f[x] for x in S)
RECURSIVE Sum(_, _)
Sum(f, S) ==
    IF S = {} THEN 0
    ELSE LET x == CHOOSE y \in S : TRUE IN f[x] + Sum(f, S \ {x})

\* the keys of a dict filled in the order of seq: distinct elements, in the
\* order of their first occurrence
RECURSIVE DictKeys(_)
DictKeys(seq) ==
    IF seq = <<>> THEN <<>>
    ELSE LET init == DictKeys(SubSeq(seq, 1, Len(seq) - 1))
             last == seq[Len(seq)]
         IN  IF \E i \in 1..Len(init) : init[i] = last THEN init
             ELSE Append(init, last)

\* the orders in which a Python set of str may be iterated: the order follows
\* the per-process string hash seed, so any enumeration of S can come out
SetOrders(S) ==
    {f \in [1..Cardinality(S) -> S] : \A i, j \in DOMAIN f : i # j => f[i] # f[j]}

\* every sequence over S of length at most n
SeqsUpTo(S, n) == UNION {[1..k -> S] : k \in 0..n}

-----------------------------------------------------------------------------
(* arithmetic_validator.py *)

\* the tolerance 1.0 of the comparison, in cents
Tolerancia == 100

_get_level(mascara) == Count(mascara, ".") + 1

_is_direct_child_prefix_only(parent_mask, child_mask) ==
    StartsWith(child_mask, parent_mask \o <<".">>)

_is_direct_child(parent_mask, child_mask) ==
    /\ StartsWith(child_mask, parent_mask \o <<".">>)
    /\ _get_level(child_mask) = _get_level(parent_mask) + 1

\* the grouping key of step 1 (Tipo, Periodo and Pagina_Origem carry no
\* surrounding whitespace, so strip() leaves them as they are)
GroupKeyNoPagina(row) == <<row.Tipo, row.Periodo, "">>

GroupKey(row) == <<row.Tipo, row.Periodo, row.Pagina_Origem>>

\* groups: dict key -> rows of that key, keys in order of first appearance
GroupOrder(rs) == DictKeys([i \in 1..Len(rs) |-> GroupKey(rs[i])])

GroupRows(rs, key) == SelectSeq(rs, LAMBDA r : GroupKey(r) = key)

\* step a: rows with a non-empty (stripped) mask
Filtered(group_rows) ==
    SelectSeq(group_rows, LAMBDA r : Strip(r.Mascara_Contabil) # <<>>)

\* step c: all_masks
AllMasks(filtered) ==
    {Strip(filtered[i].Mascara_Contabil) : i \in 1..Len(filtered)}

\* step b: mask_map, first occurrence wins
MaskMapLastWins(filtered) ==
    [m \in AllMasks(filtered) |->
        filtered[CHOOSE i \in 1..Len(filtered) :
                    /\ Strip(filtered[i].Mascara_Contabil) = m
                    /\ \A j \in (i + 1)..Len(filtered) :
                          Strip(filtered[j].Mascara_Contabil) # m]]

MaskMap(filtered) ==
    [m \in AllMasks(filtered) |->
        filtered[CHOOSE i \in 1..Len(filtered) :
                    /\ Strip(filtered[i].Mascara_Contabil) = m
                    /\ \A j \in 1..(i - 1) :
                          Strip(filtered[j].Mascara_Contabil) # m]]

\* step d: children_masks of one parent
ChildrenMasks(parent_mask, all_masks) ==
    {cm \in all_masks : _is_direct_child(parent_mask, cm)}

\* the test of line 106
InconsistenteGE(diff_atual, diff_ant) ==
    Abs(diff_atual) >= Tolerancia \/ Abs(diff_ant) >= Tolerancia

Inconsistente(diff_atual, diff_ant) ==
    Abs(diff_atual) > Tolerancia \/ Abs(diff_ant) > Tolerancia

\* the error dict appended for one parent; "erro" holds the values the
\* message interpolates (each formatted with :.2f, which tells them apart)
ErrorDict(pagina, parent_mask, mask_map, children_masks) ==
    LET parent_row        == mask_map[parent_mask]
        valor_pai_atual   == parent_row.Ano_Atual
        valor_pai_ant     == parent_row.Ano_Anterior
        soma_filhos_atual == Sum([cm \in children_masks |-> mask_map[cm].Ano_Atual],
                                 children_masks)
        soma_filhos_ant   == Sum([cm \in children_masks |-> mask_map[cm].Ano_Anterior],
                                 children_masks)
    IN  [pagina |-> pagina,
         erro   |-> [parent_mask       |-> parent_mask,
                     conta_pai         |-> parent_row.Conta,
                     soma_filhos_atual |-> soma_filhos_atual,
                     valor_pai_atual   |-> valor_pai_atual,
                     diff_atual        |-> soma_filhos_atual - valor_pai_atual,
                     soma_filhos_ant   |-> soma_filhos_ant,
                     valor_pai_ant     |-> valor_pai_ant,
                     diff_ant          |-> soma_filhos_ant - valor_pai_ant]]

\* the body of the loop over all_masks for one parent_mask: the errors it
\* appends (none or one)
CheckParentPerPeriod(pagina, parent_mask, mask_map) ==
    LET children_masks == ChildrenMasks(parent_mask, DOMAIN mask_map)
        e == ErrorDict(pagina, parent_mask, mask_map, children_masks)
    IN  IF children_masks = {} THEN <<>>
        ELSE (IF Abs(e.erro.diff_atual) > Tolerancia THEN <<e>> ELSE <<>>)
                \o (IF Abs(e.erro.diff_ant) > Tolerancia THEN <<e>> ELSE <<>>)

CheckParent(pagina, parent_mask, mask_map) ==
    LET children_masks == ChildrenMasks(parent_mask, DOMAIN mask_map)
        e == ErrorDict(pagina, parent_mask, mask_map, children_masks)
    IN  IF children_masks = {} THEN <<>>
        ELSE IF Inconsistente(e.erro.diff_atual, e.erro.diff_ant) THEN <<e>>
        ELSE <<>>

\* the loop "for parent_mask in all_masks", visiting the masks in order
RECURSIVE CheckParents(_, _, _)
CheckParents(pagina, order, mask_map) ==
    IF order = <<>> THEN <<>>
    ELSE CheckParent(pagina, order[1], mask_map)
            \o CheckParents(pagina, Tail(order), mask_map)

\* step 2 for one group
ValidateGroup(key, group_rows, order) ==
    CheckParents(key[3], order, MaskMap(Filtered(group_rows)))

\* the results validar_aritmetica(rs) can return: the groups in dict order,
\* each group's masks in any of the orders its set may be iterated in
RECURSIVE ValidateGroups(_, _)
ValidateGroups(rs, keys) ==
    IF keys = <<>> THEN {<<>>}
    ELSE LET group_rows == GroupRows(rs, keys[1])
             all_masks  == AllMasks(Filtered(group_rows))
         IN  {ValidateGroup(keys[1], group_rows, order) \o rest :
                 order \in SetOrders(all_masks),
                 rest \in ValidateGroups(rs, Tail(keys))}

validar_aritmetica(rs) == ValidateGroups(rs, GroupOrder(rs))

-----------------------------------------------------------------------------
(* consolidator.py: deduplicate *)

key_fn_no_pagina(r) == <<r.Tipo, r.Mascara_Contabil, r.Conta, "">>

key_fn(r) == <<r.Tipo, r.Mascara_Contabil, r.Conta, r.Pagina_Origem>>

\* dict update: groups[k] = v
DictSet(groups, k, v) == [x \in DOMAIN groups \cup {k} |-> IF x = k THEN v ELSE groups[x]]

\* the else branch: add the values of a later row to the kept copy
MergeAtualOnly(kept, row) ==
    [kept EXCEPT !.Ano_Atual = @ + row.Ano_Atual]

Merge(kept, row) ==
    [kept EXCEPT !.Ano_Anterior = @ + row.Ano_Anterior,
                 !.Ano_Atual    = @ + row.Ano_Atual]

\* the loop "for row in rows" of deduplicate, from the state (groups, order)
RECURSIVE DedupLoopAppendAlways(_, _, _)
DedupLoopAppendAlways(rs, groups, order) ==
    IF rs = <<>> THEN [groups |-> groups, order |-> order]
    ELSE LET row == rs[1]
             k   == key_fn(row)
         IN  IF k \notin DOMAIN groups
             THEN DedupLoopAppendAlways(Tail(rs), DictSet(groups, k, row),
                                        Append(order, k))
             ELSE DedupLoopAppendAlways(Tail(rs),
                                        DictSet(groups, k, Merge(groups[k], row)),
                                        Append(order, k))

RECURSIVE DedupLoop(_, _, _)
DedupLoop(rs, groups, order) ==
    IF rs = <<>> THEN [groups |-> groups, order |-> order]
    ELSE LET row == rs[1]
             k   == key_fn(row)
         IN  IF k \notin DOMAIN groups
             THEN DedupLoop(Tail(rs), DictSet(groups, k, row), Append(order, k))
             ELSE DedupLoop(Tail(rs), DictSet(groups, k, Merge(groups[k], row)),
                            order)

EmptyDict == [x \in {} |-> x]

deduplicate(rs) ==
    LET final == DedupLoop(rs, EmptyDict, <<>>)
    IN  [i \in 1..Len(final.order) |-> final.groups[final.order[i]]]

-----------------------------------------------------------------------------
(* consolidator.py: normalization and consolidate *)

\* a JSON null where the code expects a text
None == <<"None">>

\* the letters str.upper() and str.lower() map to each other; "i_acute" is
\* the one-character text of the accented i of "prejuízo"
UpperLetters ==
    <<"A", "B", "C", "D", "E", "F", "G", "H", "I", "J", "K", "L", "M", "N", "O", "P", "Q", "R", "S", "T", "U", "V", "W", "X", "Y", "Z", "I_acute">>
LowerLetters ==
    <<"a", "b", "c", "d", "e", "f", "g", "h", "i", "j", "k", "l", "m", "n", "o", "p", "q", "r", "s", "t", "u", "v", "w", "x", "y", "z", "i_acute">>

upper_char(c) ==
    IF \E i \in 1..Len(LowerLetters) : LowerLetters[i] = c
    THEN UpperLetters[CHOOSE i \in 1..Len(LowerLetters) : LowerLetters[i] = c]
    ELSE c

lower_char(c) ==
    IF \E i \in 1..Len(UpperLetters) : UpperLetters[i] = c
    THEN LowerLetters[CHOOSE i \in 1..Len(UpperLetters) : UpperLetters[i] = c]
    ELSE c

\* str.upper(), str.lower()
str_upper(s) == [i \in 1..Len(s) |-> upper_char(s[i])]
str_lower(s) == [i \in 1..Len(s) |-> lower_char(s[i])]

\* "sub in s"
Contains(s, sub) ==
    \E i \in 0..(Len(s) - Len(sub)) : SubSeq(s, i + 1, i + Len(sub)) = sub

_DRE_KEYWORDS ==
    {<<"r", "e", "c", "e", "i", "t", "a">>,
     <<"d", "e", "s", "p", "e", "s", "a">>,
     <<"c", "u", "s", "t", "o">>,
     <<"r", "e", "s", "u", "l", "t", "a", "d", "o">>,
     <<"d", "r", "e">>,
     <<"d", "e", "m", "o", "n", "s", "t", "r", "a">>,
     <<"l", "u", "c", "r", "o">>,
     <<"p", "r", "e", "j", "u", "i_acute", "z", "o">>}

\* defined for a text; on None the call tipo.strip() raises
_normalize_tipo(tipo) ==
    LET t   == str_upper(Strip(tipo))
        low == str_lower(tipo)
    IN  IF t = <<"D", "R", "E">> THEN "DRE"
        ELSE IF \E kw \in _DRE_KEYWORDS : Contains(low, kw) THEN "DRE"
        ELSE "BP"

\* s.startswith("(") and s.endswith(")")
InParentheses(s) == Len(s) >= 1 /\ s[1] = "(" /\ s[Len(s)] = ")"

\* re.sub(r"[R$\s]", "", s)
RemoveCurrency(s) == SelectSeq(s, LAMBDA c : c \notin {"R", "$"} \cup Whitespace)

\* "c in s", s.rfind(c) (1-based, 0 when absent), s.replace(c, "") and
\* s.replace(c, d)
Has(s, c) == \E i \in 1..Len(s) : s[i] = c
RFind(s, c) ==
    IF Has(s, c)
    THEN CHOOSE i \in 1..Len(s) : s[i] = c /\ \A j \in (i + 1)..Len(s) : s[j] # c
    ELSE 0
Remove(s, c) == SelectSeq(s, LAMBDA x : x # c)
Replace(s, c, d) == [i \in 1..Len(s) |-> IF s[i] = c THEN d ELSE s[i]]

SeparatorsAsBrazilian(s) ==
    IF Has(s, ",") /\ Has(s, ".")
    THEN Replace(Remove(s, "."), ",", ".")
    ELSE IF Has(s, ",") THEN Replace(s, ",", ".")
    ELSE s

\* lines 43-55: the separator that comes last is the decimal point
Separators(s) ==
    IF Has(s, ",") /\ Has(s, ".")
    THEN IF RFind(s, ",") > RFind(s, ".")
         THEN Replace(Remove(s, "."), ",", ".")
         ELSE Remove(s, ",")
    ELSE IF Has(s, ",") THEN Replace(s, ",", ".")
    ELSE s

Digits == <<"0", "1", "2", "3", "4", "5", "6", "7", "8", "9">>
IsDigit(c) == \E i \in 1..Len(Digits) : Digits[i] = c
DigitValue(c) == (CHOOSE i \in 1..Len(Digits) : Digits[i] = c) - 1

\* the number a sequence of digits writes
RECURSIVE DigitsValue(_)
DigitsValue(ds) ==
    IF ds = <<>> THEN 0
    ELSE 10 * DigitsValue(SubSeq(ds, 1, Len(ds) - 1)) + DigitValue(ds[Len(ds)])

\* float(s) for the texts of the model, which are made of digits, signs,
\* separators and parentheses: an optional sign, then digits with at most
\* one point and at least one digit; anything else is a ValueError. The
\* value is in cents: the texts of the model that float accepts have only
\* zeros after the second decimal, so it is a whole number of cents.
ParseFloat(s) ==
    LET signed == Len(s) >= 1 /\ s[1] \in {"-", "+"}
        body   == IF signed THEN Tail(s) ELSE s
        point  == RFind(body, ".")
        int    == IF point = 0 THEN body ELSE SubSeq(body, 1, point - 1)
        frac   == IF point = 0 THEN <<>> ELSE SubSeq(body, point + 1, Len(body))
        frac2  == SubSeq(frac \o <<"0", "0">>, 1, 2)
        ok     == /\ \A i \in 1..Len(int) : IsDigit(int[i])
                  /\ \A i \in 1..Len(frac) : IsDigit(frac[i])
                  /\ Len(int) + Len(frac) >= 1
        cents  == 100 * DigitsValue(int) + DigitsValue(frac2)
    IN  IF ~ok THEN [ok |-> FALSE, val |-> 0]
        ELSE [ok |-> TRUE,
              val |-> IF signed /\ s[1] = "-" THEN -cents ELSE cents]

\* the texts normalize_number takes for zero: "", "-", and the two dashes
ZeroTexts == {<<>>, <<"-">>, <<"en_dash">>, <<"em_dash">>}

\* lines 27-64, for a text
NormalizeText(text) ==
    LET s        == Strip(text)
        negative == InParentheses(s)
        inner    == IF negative THEN Strip(SubSeq(s, 2, Len(s) - 1)) ELSE s
        parsed   == ParseFloat(Separators(RemoveCurrency(inner)))
    IN  IF s \in ZeroTexts THEN 0
        ELSE IF ~parsed.ok THEN 0
        ELSE IF negative THEN -parsed.val ELSE parsed.val

\* the raw values of the model are JSON nulls, JSON numbers (in cents) and
\* JSON texts
normalize_number(raw) ==
    IF raw.kind = "none" THEN 0
    ELSE IF raw.kind = "number" THEN raw.value
    ELSE NormalizeText(raw.text)

\* the account names of the model start with a letter: neither pattern of
\* _clean_conta matches them and line 97 returns them as they are
_clean_conta(conta) == conta

\* the row dict of consolidate, with the fields the pipeline reads
Row(tipo, periodo, pagina, conta, mascara, ant, atual) ==
    [Tipo |-> tipo, Periodo |-> periodo, Pagina_Origem |-> pagina,
     Conta |-> conta, Mascara_Contabil |-> mascara,
     Ano_Anterior |-> ant, Ano_Atual |-> atual]

ConsolidatePageMasked(extraction, label) ==
    LET tipo    == _normalize_tipo(extraction.type)
        periodo == extraction.periodo
        items   == SelectSeq(extraction.rows.items,
                             LAMBDA it : Strip(it.Mascara_Contabil) # <<>>)
    IN  [k \in 1..Len(items) |->
            Row(tipo, periodo, label, _clean_conta(items[k].Conta),
                Strip(items[k].Mascara_Contabil),
                normalize_number(items[k].Ano_Anterior),
                normalize_number(items[k].Ano_Atual))]

\* the rows consolidate appends for one extraction (the fields it sets to ""
\* and the two year labels are left out: no step of the pipeline reads them)
ConsolidatePage(extraction, label) ==
    LET tipo    == _normalize_tipo(extraction.type)
        periodo == extraction.periodo
        items   == extraction.rows.items
    IN  [k \in 1..Len(items) |->
            Row(tipo, periodo, label, _clean_conta(items[k].Conta),
                Strip(items[k].Mascara_Contabil),
                normalize_number(items[k].Ano_Anterior),
                normalize_number(items[k].Ano_Atual))]

\* the loop over zip(extractions, page_labels)
RECURSIVE consolidate(_, _)
consolidate(extractions, page_labels) ==
    IF extractions = <<>> \/ page_labels = <<>> THEN <<>>
    ELSE ConsolidatePage(extractions[1], page_labels[1])
            \o consolidate(Tail(extractions), Tail(page_labels))

\* consolidate raises (AttributeError in _normalize_tipo) on a null type
ConsolidateRaises(extractions) ==
    \E i \in 1..Len(extractions) : extractions[i].type = None

-----------------------------------------------------------------------------
(* validators.py, gemini_extractor.py: what _process_pdf_pages calls *)

\* is_valid of validar_extracao: "rows" is a list (the warnings are logged only)
validar_extracao(extraction) == extraction.rows.is_list

\* the loop over the rows (lines 48-66) raises on a row that is no JSON
\* object: "field not in row" on a null or a number, row.get on a text
ValidarRaises(extraction) ==
    /\ extraction.rows.is_list
    /\ \E k \in 1..Len(extraction.rows.items) :
          "non_object" \in DOMAIN extraction.rows.items[k]

\* "" (here <<>>) without rows, else the type and the first and last row
build_context_summary(extraction) ==
    LET items == extraction.rows.items
    IN  IF items = <<>> THEN <<>>
        ELSE <<extraction.type,
               items[1].Conta, items[1].Mascara_Contabil,
               items[Len(items)].Conta, items[Len(items)].Mascara_Contabil>>

-----------------------------------------------------------------------------
(* mascara_generator.py *)

MAX_RETRIES == 3

\* rows handed to the collaborator in one request
chunk_size == 200

\* (all_have_masks, count_missing)
verificar_mascaras(rs) ==
    LET missing == Cardinality({i \in 1..Len(rs) : Strip(rs[i].Mascara_Contabil) = <<>>})
    IN  <<missing = 0, missing>>

ApplyUpdateOverwrite(rs, upd) ==
    LET mascara == Strip(upd.mascara)
    IN  IF /\ upd.index # <<>>
           /\ mascara # <<>>
           /\ 0 <= upd.index[1]
           /\ upd.index[1] < Len(rs)
        THEN [rs EXCEPT ![upd.index[1] + 1].Mascara_Contabil = mascara]
        ELSE rs

\* one suggestion {"index": idx, "mascara": m} applied to the rows; idx is
\* <<>> for a missing index and <<n>> for the number n (0-based)
ApplyUpdate(rs, upd) ==
    LET mascara == Strip(upd.mascara)
    IN  IF /\ upd.index # <<>>
           /\ mascara # <<>>
           /\ 0 <= upd.index[1]
           /\ upd.index[1] < Len(rs)
           /\ Strip(rs[upd.index[1] + 1].Mascara_Contabil) = <<>>
        THEN [rs EXCEPT ![upd.index[1] + 1].Mascara_Contabil = mascara]
        ELSE rs

\* the loop "for upd in updates": a suggestion whose "mascara" is null raises
\* (None has no strip) and leaves the loop with the rows as they are by then
RECURSIVE ApplyUpdates(_, _)
ApplyUpdates(rs, updates) ==
    IF updates = <<>> THEN [rows |-> rs, raised |-> FALSE]
    ELSE IF updates[1].mascara = None THEN [rows |-> rs, raised |-> TRUE]
    ELSE ApplyUpdates(ApplyUpdate(rs, updates[1]), Tail(updates))

\* the loop "for attempt in range(MAX_RETRIES)" on one chunk; responses[k]
\* is what the k-th request yields: a failure (the call raised or its text
\* is no JSON) or a list of suggestions
RECURSIVE Attempts(_, _, _)
Attempts(rs, responses, attempt) ==
    IF attempt > MAX_RETRIES THEN rs
    ELSE IF responses[attempt].failed THEN Attempts(rs, responses, attempt + 1)
    ELSE LET r == ApplyUpdates(rs, responses[attempt].updates)
         IN  IF r.raised THEN Attempts(r.rows, responses, attempt + 1)
             ELSE r.rows

\* the rows of the model fit one chunk (Len(rs) <= chunk_size)
gerar_mascaras(rs, api_key, responses) ==
    IF ~api_key THEN rs
    ELSE IF \A i \in 1..Len(rs) : rs[i].Mascara_Contabil # <<>> THEN rs
    ELSE Attempts(rs, responses, 1)

-----------------------------------------------------------------------------
(* main.py *)

\* the threshold 0.80, in percent
MASK_GENERATION_THRESHOLD == 80

\* f"PDF{file_idx}-P{page_num}"
Label(file_idx, page_num) ==
    "PDF" \o ToString(file_idx) \o "-P" \o ToString(page_num)

\* the locals of one call of _process_pdf_pages, and the page it is at
NewWorker ==
    [next |-> 1, extractions |-> <<>>, labels |-> <<>>, errors |-> <<>>,
     contexto_anterior |-> <<>>, locked_periodo |-> "", raised |-> FALSE]

OnRaisedResetContext(w, label) ==
    [w EXCEPT !.errors = Append(@, [pagina |-> label,
                                    erro |-> [mensagem |-> "extract_page raised"]]),
              !.contexto_anterior = <<>>,
              !.next = @ + 1]

\* lines 72-76: extract_page raised
OnRaised(w, label) ==
    [w EXCEPT !.errors = Append(@, [pagina |-> label,
                                    erro |-> [mensagem |-> "extract_page raised"]]),
              !.next = @ + 1]

OnInvalidNoEntry(w, label, locked) ==
    [w EXCEPT !.locked_periodo = locked,
              !.next = @ + 1]

\* lines 103-105: the extraction is structurally invalid
OnInvalid(w, label, locked) ==
    [w EXCEPT !.errors = Append(@, [pagina |-> label,
                                    erro |-> [mensagem |-> "invalid"]]),
              !.locked_periodo = locked,
              !.next = @ + 1]

\* lines 98-102: the extraction is kept
OnValid(w, label, result, locked) ==
    [w EXCEPT !.extractions = Append(@, result),
              !.labels = Append(@, label),
              !.contexto_anterior = build_context_summary(result),
              !.locked_periodo = locked,
              !.next = @ + 1]

\* the body of the loop "for page_bytes, label in pages" for what
\* extract_page did: raised, or returned the dict outcome.result; an
\* exception of validar_extracao is caught nowhere and ends the call
ProcessOnePage(w, label, outcome) ==
    IF outcome.raised
    THEN OnRaised(w, label)
    ELSE LET periodo_raw == outcome.result.periodo
             locked == IF w.locked_periodo = "" /\ periodo_raw # ""
                       THEN periodo_raw ELSE w.locked_periodo
             result == IF locked # "" THEN [outcome.result EXCEPT !.periodo = locked]
                       ELSE outcome.result
         IN  IF ValidarRaises(result)
             THEN [w EXCEPT !.locked_periodo = locked, !.raised = TRUE]
             ELSE IF validar_extracao(result)
             THEN OnValid(w, label, result, locked)
             ELSE OnInvalid(w, label, locked)

ShouldGenerateMasksAbove(rs) ==
    LET check == verificar_mascaras(rs)
    IN  /\ ~check[1]
        /\ rs # <<>>
        /\ check[2] * 100 > MASK_GENERATION_THRESHOLD * Len(rs)

\* the test that decides the call of gerar_mascaras (lines 224-229); the
\* quotient missing / len(rows) is compared as a fraction of integers
ShouldGenerateMasks(rs) ==
    LET check == verificar_mascaras(rs)
    IN  /\ ~check[1]
        /\ rs # <<>>
        /\ check[2] * 100 >= MASK_GENERATION_THRESHOLD * Len(rs)

-----------------------------------------------------------------------------
(* Inputs of the pure functions *)

M_empty   == <<>>
M_blank   == <<" ">>
M_1       == <<"1">>
M_1_01    == <<"1", ".", "0", "1">>
M_1_02    == <<"1", ".", "0", "2">>
M_1_01_01 == <<"1", ".", "0", "1", ".", "0", "1">>

\* a parent and two children whose values (Ano_Anterior, Ano_Atual) put the
\* differences at, below and beyond the tolerance in either period, and a
\* second page with a parent and a child
ToleranceValues == {<<0, 0>>, <<100, 0>>, <<0, 150>>, <<150, 100>>}
ToleranceRows ==
    {Row("BP", "09/2023", "PDF1-P1", "Ativo", m, v[1], v[2]) :
        m \in {M_1, M_1_01, M_1_02}, v \in ToleranceValues}
    \cup {Row("BP", "09/2023", "PDF1-P2", "Ativo", M_1, 0, 0),
          Row("BP", "09/2023", "PDF1-P2", "Ativo", M_1_01, 0, 150)}

\* one statement group with a three-level hierarchy and rows without a mask
HierarchyRows ==
    {Row("BP", "09/2023", "PDF1-P1", "Ativo", m, 0, v) :
        m \in {M_empty, M_blank, M_1, M_1_01, M_1_01_01}, v \in {0, 150}}

\* statement groups that differ in one component of the key
GroupKeys ==
    {<<"BP", "09/2023", "PDF1-P1">>, <<"DRE", "09/2023", "PDF1-P1">>,
     <<"BP", "12/2023", "PDF1-P1">>, <<"BP", "09/2023", "PDF1-P2">>}
GroupsRows ==
    {Row(k[1], k[2], k[3], "Ativo", m, 0, v) :
        k \in GroupKeys, m \in {M_1, M_1_01}, v \in {0, 150}}

\* deduplication keys that differ in one component, each with two payloads
DedupKeys ==
    {<<"BP", M_1, "Ativo", "PDF1-P1">>, <<"DRE", M_1, "Ativo", "PDF1-P1">>,
     <<"BP", M_empty, "Ativo", "PDF1-P1">>, <<"BP", M_1, "Caixa", "PDF1-P1">>,
     <<"BP", M_1, "Ativo", "PDF1-P2">>}
DedupPayloads == {<<"09/2023", 50, 100>>, <<"12/2023", 150, -50>>}
DedupRows ==
    {Row(k[1], p[1], k[4], k[3], k[2], p[2], p[3]) :
        k \in DedupKeys, p \in DedupPayloads}

-----------------------------------------------------------------------------
(* Specifications of the pure functions: the input is drawn, then applied *)

\* no request is being served
NoRequest ==
    /\ pdf_groups = <<>>
    /\ worker = <<>>
    /\ collected = 0
    /\ all_extractions = <<>>
    /\ all_labels = <<>>
    /\ all_errors = <<>>
    /\ xlsx_rows = <<>>
    /\ xlsx_errors = <<>>
    /\ response = 0
    /\ extracted = <<>>
    /\ finished = <<>>
    /\ contexts = <<>>

\* gerar_mascaras has not been called
NoMaskCall ==
    /\ mask_call = FALSE
    /\ mask_run = <<>>
    /\ masked = <<>>

\* extract_page has not been called
NoExtract ==
    /\ extract_attempt = 0
    /\ gemini_api_key = ""
    /\ calls = <<>>
    /\ waits = <<>>
    /\ page_result = <<>>
    /\ exception = ""

\* normalize_number has not been called
NoNumber ==
    /\ raw_value = <<>>
    /\ number = 0

InitWith(universe) ==
    /\ rows \in SeqsUpTo(universe, MaxRows)
    /\ errors = <<>>
    /\ errors_prev = <<>>
    /\ dedup1 = <<>>
    /\ dedup2 = <<>>
    /\ pc = "input"
    /\ NoRequest
    /\ NoMaskCall
    /\ NoNumber
    /\ NoExtract

\* a call validar_aritmetica(rows)
Validate ==
    /\ pc = "input"
    /\ \E result \in validar_aritmetica(rows) : errors' = result
    /\ pc' = "validated"
    /\ UNCHANGED <<rows, errors_prev, dedup1, dedup2, req_vars, mask_vars, num_vars, ext_vars>>

\* a second call on the same rows, in a process of its own
Revalidate ==
    /\ pc = "validated"
    /\ \E result \in validar_aritmetica(rows) : errors' = result
    /\ errors_prev' = errors
    /\ pc' = "revalidated"
    /\ UNCHANGED <<rows, dedup1, dedup2, req_vars, mask_vars, num_vars, ext_vars>>

NextValidateOnce == Validate

NextValidateTwice == Validate \/ Revalidate

InitTolerance == InitWith(ToleranceRows)
SpecTolerance == InitTolerance /\ [][NextValidateOnce]_vars

InitHierarchy == InitWith(HierarchyRows)
SpecHierarchy == InitHierarchy /\ [][NextValidateTwice]_vars

InitGroups == InitWith(GroupsRows)
SpecGroups == InitGroups /\ [][NextValidateOnce]_vars

\* a call deduplicate(rows)
Dedup ==
    /\ pc = "input"
    /\ dedup1' = deduplicate(rows)
    /\ pc' = "deduped"
    /\ UNCHANGED <<rows, errors, errors_prev, dedup2, req_vars, mask_vars, num_vars, ext_vars>>

\* deduplicate applied to its own output
DedupAgain ==
    /\ pc = "deduped"
    /\ dedup2' = deduplicate(dedup1)
    /\ pc' = "deduped_twice"
    /\ UNCHANGED <<rows, errors, errors_prev, dedup1, req_vars, mask_vars, num_vars, ext_vars>>

NextDedup == Dedup \/ DedupAgain

InitDedup == InitWith(DedupRows)
SpecDedup == InitDedup /\ [][NextDedup]_vars

-----------------------------------------------------------------------------
(* A request to /extract *)

\* pages of the first PDF of a request
MaxPages == 2

\* raw JSON values of a row
Null == [kind |-> "none"]
Num(v) == [kind |-> "number", value |-> v]
Text(t) == [kind |-> "text", text |-> t]

Item(conta, mascara, ant, atual) ==
    [Conta |-> conta, Mascara_Contabil |-> mascara,
     Ano_Anterior |-> ant, Ano_Atual |-> atual]

\* the dict extract_page returns; rows.is_list tells whether "rows" is a list
Extraction(type, periodo, is_list, items) ==
    [type |-> type, periodo |-> periodo,
     rows |-> [is_list |-> is_list, items |-> items]]

\* a parent of 100.00 whose children are 60.00 and 41.50
InconsistentPage ==
    Extraction(<<"B", "P">>, "09/2023", TRUE,
               <<Item("Ativo", M_1, Null, Num(10000)),
                 Item("Caixa", M_1_01, Null, Num(6000)),
                 Item("Bancos", M_1_02, Null, Num(4150))>>)

\* rows without masks, no period
NoMaskPage ==
    Extraction(<<"d", "r", "e">>, "", TRUE,
               <<Item("Receita", M_empty, Num(0), Num(10000)),
                 Item("Custo", M_blank, Num(0), Num(4000))>>)

EmptyPage == Extraction(<<"B", "P">>, "12/2023", TRUE, <<>>)

NotAListPage == Extraction(<<"B", "P">>, "09/2023", FALSE, <<>>)

NullTypePage ==
    Extraction(None, "", TRUE, <<Item("Ativo", M_1, Null, Num(10000))>>)

\* a row that is no JSON object
NonObject == [non_object |-> TRUE]

NonObjectRowPage == Extraction(<<"B", "P">>, "09/2023", TRUE, <<NonObject>>)

\* what extract_page can do on a page
PageOutcomes ==
    {[raised |-> TRUE]}
    \cup {[raised |-> FALSE, result |-> e] :
            e \in {InconsistentPage, NoMaskPage, EmptyPage, NotAListPage,
                   NullTypePage, NonObjectRowPage}}

Upd(i, m) == [index |-> <<i>>, mascara |-> m]

M_1_padded == <<" ", "1", ".", "0", "2", " ">>

\* suggestion lists of the collaborator: none, one per row, a second
\* suggestion for a row and an index out of range, a null mask in the
\* middle, a suggestion without index, a negative index with a blank and a
\* padded mask
UpdateLists ==
    {<<>>,
     <<Upd(0, M_1), Upd(1, M_1_01)>>,
     <<Upd(0, M_1), Upd(0, M_1_01), Upd(9, M_1)>>,
     <<Upd(0, M_1), Upd(1, None), Upd(1, M_1_01)>>,
     <<[index |-> <<>>, mascara |-> M_1]>>,
     <<Upd(-1, M_1), Upd(1, M_blank), Upd(1, M_1_padded), Upd(2, M_1_01)>>}

MaskResponses ==
    {[failed |-> TRUE]}
    \cup {[failed |-> FALSE, updates |-> u] : u \in UpdateLists}

Pages(file_idx, n) == [page_num \in 1..n |-> Label(file_idx, page_num)]

\* one PDF of up to MaxPages pages, alone or followed by a PDF of one page
Requests ==
    {<<Pages(1, n)>> : n \in 1..MaxPages}
    \cup {<<Pages(1, n), Pages(2, 1)>> : n \in 1..MaxPages}

\* a request drawn from the set requests, after the split into pages
InitRequest(requests) ==
    /\ pdf_groups \in requests
    /\ worker = [d \in 1..Len(pdf_groups) |-> NewWorker]
    /\ collected = 0
    /\ all_extractions = <<>>
    /\ all_labels = <<>>
    /\ all_errors = <<>>
    /\ xlsx_rows = <<>>
    /\ xlsx_errors = <<>>
    /\ response = 0
    /\ extracted = <<>>
    /\ finished = <<>>
    /\ contexts = <<>>
    /\ NoMaskCall
    /\ NoNumber
    /\ NoExtract
    /\ rows = <<>>
    /\ errors = <<>>
    /\ errors_prev = <<>>
    /\ dedup1 = <<>>
    /\ dedup2 = <<>>
    /\ pc = "extract"

Init == InitRequest(Requests)

\* the call of _process_pdf_pages for PDF d has ended
WorkerEnded(w, pages) == w.raised \/ w.next > Len(pages)

\* _process_pdf_pages of PDF d handles its next page; the calls of the
\* PDFs run in threads of their own
ProcessPage(d) ==
    /\ pc = "extract"
    /\ ~WorkerEnded(worker[d], pdf_groups[d])
    /\ \E outcome \in PageOutcomes :
          LET label == pdf_groups[d][worker[d].next]
              w == ProcessOnePage(worker[d], label, outcome)
          IN  /\ worker' = [worker EXCEPT ![d] = w]
              /\ extracted' = DictSet(extracted, label, outcome)
              /\ contexts' = DictSet(contexts, label, worker[d].contexto_anterior)
              /\ finished' = IF WorkerEnded(w, pdf_groups[d])
                             THEN Append(finished, d) ELSE finished
    /\ UNCHANGED <<rows, fn_vars, pc, pdf_groups, collected, all_extractions,
                   all_labels, all_errors, xlsx_rows, xlsx_errors, response,
                   mask_vars, num_vars, ext_vars>>

ExtendFront(all, part) == part \o all

\* list.extend
Extend(all, part) == all \o part

\* the endpoint takes the result of PDF d, in the order of the PDFs
\* (future.result(), or the direct call for a single PDF); the exception of
\* a call that raised is raised again here and ends the request once the
\* executor has waited for the other calls
Collect(d) ==
    /\ pc = "extract"
    /\ d = collected + 1
    /\ WorkerEnded(worker[d], pdf_groups[d])
    /\ IF worker[d].raised
       THEN /\ Len(finished) = Len(pdf_groups)
            /\ response' = 500
            /\ pc' = "failed"
            /\ UNCHANGED <<all_extractions, all_labels, all_errors, collected>>
       ELSE /\ all_extractions' = Extend(all_extractions, worker[d].extractions)
            /\ all_labels' = Extend(all_labels, worker[d].labels)
            /\ all_errors' = Extend(all_errors, worker[d].errors)
            /\ collected' = d
            /\ UNCHANGED <<response, pc>>
    /\ UNCHANGED <<rows, fn_vars, pdf_groups, worker, xlsx_rows, xlsx_errors,
                   extracted, finished, contexts, mask_vars, num_vars, ext_vars>>

\* what a call of gerar_mascaras meets: no API key, or a key and the
\* outcomes of up to MAX_RETRIES requests
MaskRuns ==
    {[api_key |-> FALSE, responses |-> <<>>]}
    \cup {[api_key |-> TRUE, responses |-> r] :
            r \in [1..MAX_RETRIES -> MaskResponses]}

\* lines 223-239 of the endpoint on rows rs, gerar_mascaras meeting the
\* runs of the set mask_runs if it is called
MaskStep(rs, mask_runs) ==
    IF ShouldGenerateMasks(rs)
    THEN \E run \in mask_runs :
            /\ mask_call' = TRUE
            /\ mask_run' = run
            /\ masked' = gerar_mascaras(rs, run.api_key, run.responses)
    ELSE /\ mask_call' = FALSE
         /\ mask_run' = mask_run
         /\ masked' = rs

\* lines 241-254: deduplicate, build_xlsx(rows, errors=all_errors), Response
Render ==
    LET final == deduplicate(masked')
    IN  /\ rows' = final
        /\ xlsx_rows' = final
        /\ xlsx_errors' = all_errors
        /\ response' = 200
        /\ pc' = "done"

\* steps 4 and 5 of the endpoint: consolidate, infer the masks when the
\* threshold asks for it, deduplicate, render and answer; an exception of
\* consolidate ends the request
Respond ==
    /\ pc = "extract"
    /\ collected = Len(pdf_groups)
    /\ IF ConsolidateRaises(all_extractions)
       THEN /\ response' = 500
            /\ pc' = "failed"
            /\ UNCHANGED <<rows, xlsx_rows, xlsx_errors, mask_vars>>
       ELSE /\ MaskStep(consolidate(all_extractions, all_labels), MaskRuns)
            /\ Render
    /\ UNCHANGED <<fn_vars, pdf_groups, worker, collected, all_extractions,
                   all_labels, all_errors, extracted, finished, contexts,
                   num_vars, ext_vars>>

Next ==
    \/ \E d \in 1..Len(pdf_groups) : ProcessPage(d)
    \/ \E d \in 1..Len(pdf_groups) : Collect(d)
    \/ Respond

Spec == Init /\ [][Next]_vars

-----------------------------------------------------------------------------
(* The calls of _process_pdf_pages alone *)

\* pages of the first PDF when only the workers run
MaxWorkerPages == 3

WorkerRequests ==
    {<<Pages(1, n)>> : n \in 1..MaxWorkerPages}
    \cup {<<Pages(1, n), Pages(2, 1)>> : n \in 1..MaxWorkerPages}

InitWorkers == InitRequest(WorkerRequests)

NextWorkers == \E d \in 1..Len(pdf_groups) : ProcessPage(d)

SpecWorkers == InitWorkers /\ [][NextWorkers]_vars

-----------------------------------------------------------------------------
(* The mask step of the endpoint on drawn rows *)

\* rows a threshold decision is taken on
MaxThresholdRows == 10

\* a row with a mask, one without, one whose mask is blank
ThresholdRows ==
    {Row("BP", "09/2023", "PDF1-P1", "Ativo", m, 0, 0) :
        m \in {M_1, M_empty, M_blank}}

\* no API key, or a key and one suggestion for the first row
ThresholdRuns ==
    {[api_key |-> FALSE, responses |-> <<>>],
     [api_key |-> TRUE,
      responses |-> [k \in 1..MAX_RETRIES |->
                        [failed |-> FALSE, updates |-> <<Upd(0, M_1_01)>>]]]}

InitThreshold ==
    /\ rows \in SeqsUpTo(ThresholdRows, MaxThresholdRows)
    /\ errors = <<>>
    /\ errors_prev = <<>>
    /\ dedup1 = <<>>
    /\ dedup2 = <<>>
    /\ pc = "input"
    /\ NoRequest
    /\ NoMaskCall
    /\ NoNumber
    /\ NoExtract

\* lines 223-239 of the endpoint
CheckMasks ==
    /\ pc = "input"
    /\ MaskStep(rows, ThresholdRuns)
    /\ pc' = "mask_step_done"
    /\ UNCHANGED <<rows, fn_vars, req_vars, num_vars, ext_vars>>

NextThreshold == CheckMasks

SpecThreshold == InitThreshold /\ [][NextThreshold]_vars

-----------------------------------------------------------------------------
(* gerar_mascaras on drawn rows *)

\* rows without a mask, with a blank mask and with a mask
MaskRows ==
    {Row("BP", "09/2023", "PDF1-P1", "Ativo", m, 0, 150) :
        m \in {M_empty, M_blank, M_1_02}}

InitMasks == InitWith(MaskRows)

\* a call gerar_mascaras(rows)
GenerateMasks ==
    /\ pc = "input"
    /\ \E run \in MaskRuns :
          /\ mask_call' = TRUE
          /\ mask_run' = run
          /\ masked' = gerar_mascaras(rows, run.api_key, run.responses)
    /\ pc' = "masks_generated"
    /\ UNCHANGED <<rows, fn_vars, req_vars, num_vars, ext_vars>>

NextMasks == GenerateMasks

SpecMasks == InitMasks /\ [][NextMasks]_vars

-----------------------------------------------------------------------------
(* consolidate on drawn extractions *)

\* the "type" values of a page: the two codes, DRE in other cases and
\* padded, texts with a keyword in either case, another text, the empty
\* text (also what an absent key gives) and a value that is no text
TypeValues ==
    {<<"B", "P">>, <<"D", "R", "E">>, <<"d", "r", "e">>,
     <<" ", "D", "r", "e", " ">>,
     <<"L", "U", "C", "R", "O", "S">>,
     <<"P", "r", "e", "j", "u", "I_acute", "z", "o">>,
     <<"x">>, <<>>, None}

ItemAtivo == Item("Ativo", M_1_padded, Null, Num(10000))
ItemCaixa == Item("Caixa", M_empty, Num(50), Num(-150))

\* the period and the rows of a page: no rows, two rows, a row twice
PageBodies ==
    {<<"09/2023", <<>>>>,
     <<"", <<ItemAtivo, ItemCaixa>>>>,
     <<"12/2023", <<ItemCaixa, ItemCaixa>>>>}

ConsolidatePages ==
    {Extraction(t, b[1], TRUE, b[2]) : t \in TypeValues, b \in PageBodies}

InitConsolidate ==
    /\ all_extractions \in SeqsUpTo(ConsolidatePages, MaxPages)
    /\ all_labels \in [1..Len(all_extractions) -> {"PDF1-P1", "PDF2-P1"}]
    /\ pdf_groups = <<>>
    /\ worker = <<>>
    /\ collected = 0
    /\ all_errors = <<>>
    /\ xlsx_rows = <<>>
    /\ xlsx_errors = <<>>
    /\ response = 0
    /\ extracted = <<>>
    /\ finished = <<>>
    /\ contexts = <<>>
    /\ rows = <<>>
    /\ errors = <<>>
    /\ errors_prev = <<>>
    /\ dedup1 = <<>>
    /\ dedup2 = <<>>
    /\ pc = "input"
    /\ NoMaskCall
    /\ NoNumber
    /\ NoExtract

\* a call consolidate(all_extractions, all_labels), which returns or raises
Consolidate ==
    /\ pc = "input"
    /\ IF ConsolidateRaises(all_extractions)
       THEN /\ pc' = "consolidate_raised"
            /\ rows' = rows
       ELSE /\ pc' = "consolidated"
            /\ rows' = consolidate(all_extractions, all_labels)
    /\ UNCHANGED <<fn_vars, req_vars, mask_vars, num_vars, ext_vars>>

NextConsolidate == Consolidate

SpecConsolidate == InitConsolidate /\ [][NextConsolidate]_vars

-----------------------------------------------------------------------------
(* normalize_number on drawn values *)

\* texts with both separators, the later one a comma or a point, and texts
\* with commas only, each with the value in cents it writes when the later
\* separator (or the only comma) is the decimal point
SeparatorTexts ==
    {[text |-> <<"1", ".", "2", "3", "4", ",", "5", "6">>, cents |-> 123456],
     [text |-> <<"1", ",", "2", "3", "4", ".", "5", "6">>, cents |-> 123456],
     [text |-> <<"1", ".", "2", "3", "4", ".", "5", "6", "7", ",", "8", "9">>, cents |-> 123456789],
     [text |-> <<"1", ",", "2", "3", "4", ",", "5", "6", "7", ".", "8", "9">>, cents |-> 123456789],
     [text |-> <<"1", "2", "3", "4", ",", "5", "6">>, cents |-> 123456],
     [text |-> <<"0", ",", "5">>, cents |-> 50],
     [text |-> <<"1", ",", "0", "0", "0">>, cents |-> 100]}

\* texts with points only, without separator, with a separator that comes
\* back after the decimal point, with no number at all, and the dashes
OtherTexts ==
    {<<"1", "2", "3", "4", ".", "5", "6">>,
     <<"1", ".", "0", "0", "0">>,
     <<"1", "2", "3", "4">>,
     <<"1", ",", "2", "3", "4", ",", "5", "6", "7">>,
     <<"1", ".", "2", "3", "4", ",", "5", "6", ",", "7", "8">>,
     <<"1", ".", "2", ".", "3">>,
     <<"x">>,
     <<>>,
     <<"-">>, <<"en_dash">>}

\* a text as it is, after the currency sign, in parentheses (bare, padded,
\* around the currency sign), with the sign of the value it then writes
SignedWrappers ==
    {[before |-> <<>>, after |-> <<>>, sign |-> 1],
     [before |-> <<"R", "$", " ">>, after |-> <<>>, sign |-> 1],
     [before |-> <<"(">>, after |-> <<")">>, sign |-> -1],
     [before |-> <<" ", "(", " ">>, after |-> <<" ", ")", " ">>, sign |-> -1],
     [before |-> <<"(", "R", "$", " ">>, after |-> <<")">>, sign |-> -1]}

\* a minus sign before the text, the currency sign before the parentheses
OtherWrappers ==
    {[before |-> <<"-">>, after |-> <<>>],
     [before |-> <<"R", "$", " ", "(">>, after |-> <<")">>]}

Wrap(w, text) == w.before \o text \o w.after

RawValues ==
    {Null, Num(0), Num(150), Num(-50)}
    \cup {Text(Wrap(w, t)) :
            w \in SignedWrappers \cup OtherWrappers,
            t \in {c.text : c \in SeparatorTexts} \cup OtherTexts}

InitNumber ==
    /\ raw_value \in RawValues
    /\ number = 0
    /\ rows = <<>>
    /\ errors = <<>>
    /\ errors_prev = <<>>
    /\ dedup1 = <<>>
    /\ dedup2 = <<>>
    /\ pc = "input"
    /\ NoRequest
    /\ NoMaskCall
    /\ NoExtract

\* a call normalize_number(raw_value)
Normalize ==
    /\ pc = "input"
    /\ number' = normalize_number(raw_value)
    /\ pc' = "normalized"
    /\ UNCHANGED <<rows, fn_vars, req_vars, mask_vars, raw_value, ext_vars>>

NextNumber == Normalize

SpecNumber == InitNumber /\ [][NextNumber]_vars


-----------------------------------------------------------------------------
(* gemini_extractor.py: extract_page.  A call of the model gives an         *)
(* exception, a response without text, a text that is no JSON, or a text    *)
(* that parses to a JSON value.                                             *)

\* MAX_RETRIES of gemini_extractor.py
EXTRACT_MAX_RETRIES == 3

\* seconds, doubled each retry
RETRY_BACKOFF == 2

\* a JSON value parsed from the response: whether it is an object, whether
\* len() applies to its "rows", and the page it describes
Parsed(object, sized, result) ==
    [object |-> object, sized |-> sized, result |-> result]

JsonValues ==
    {Parsed(TRUE, TRUE, e) : e \in {InconsistentPage, EmptyPage, NotAListPage}}
    \cup {Parsed(TRUE, FALSE, NotAListPage), Parsed(FALSE, FALSE, NonObject)}

CallOutcomes ==
    {[kind |-> k] : k \in {"call_error", "no_text", "bad_json"}}
    \cup {[kind |-> "json", value |-> v] : v \in JsonValues}

\* the try block runs to its return: generate_content returns, the text
\* parses, and the arguments of logger.info evaluate (result.get on an
\* object, len of its rows)
TryReturns(outcome) ==
    /\ outcome.kind = "json"
    /\ outcome.value.object
    /\ outcome.value.sized

\* RETRY_BACKOFF * (2 ** attempt), with the exponent of a constant wait
SleepSecondsConstant(attempt_no) == RETRY_BACKOFF

\* RETRY_BACKOFF * (2 ** attempt)
SleepSeconds(attempt_no) == RETRY_BACKOFF * (2 ^ attempt_no)

InitExtract ==
    /\ gemini_api_key \in {"", "key"}
    /\ extract_attempt = 0
    /\ calls = <<>>
    /\ waits = <<>>
    /\ page_result = <<>>
    /\ exception = ""
    /\ rows = <<>>
    /\ errors = <<>>
    /\ errors_prev = <<>>
    /\ dedup1 = <<>>
    /\ dedup2 = <<>>
    /\ pc = "input"
    /\ NoRequest
    /\ NoMaskCall
    /\ NoNumber

\* client = _get_client()
GetClient ==
    /\ pc = "input"
    /\ IF gemini_api_key = ""
          THEN /\ exception' = "RuntimeError"
               /\ pc' = "raised"
          ELSE /\ exception' = exception
               /\ pc' = "attempt"
    /\ UNCHANGED <<rows, fn_vars, req_vars, mask_vars, num_vars,
                   extract_attempt, gemini_api_key, calls, waits, page_result>>

\* the try statement of one pass of the loop
CallModel ==
    /\ pc = "attempt"
    /\ \E outcome \in CallOutcomes :
          /\ calls' = Append(calls, outcome)
          /\ IF TryReturns(outcome)
                THEN /\ page_result' = outcome.value.result
                     /\ pc' = "returned"
                ELSE /\ page_result' = page_result
                     /\ pc' = "failed_attempt"
    /\ UNCHANGED <<rows, fn_vars, req_vars, mask_vars, num_vars,
                   extract_attempt, gemini_api_key, waits, exception>>

\* after a failed pass that is not the last: time.sleep, then the next pass
Sleep ==
    /\ pc = "failed_attempt"
    /\ extract_attempt < EXTRACT_MAX_RETRIES - 1
    /\ waits' = Append(waits, SleepSeconds(extract_attempt))
    /\ extract_attempt' = extract_attempt + 1
    /\ pc' = "attempt"
    /\ UNCHANGED <<rows, fn_vars, req_vars, mask_vars, num_vars,
                   gemini_api_key, calls, page_result, exception>>

\* after the last pass has failed: the raise that follows the loop
RaiseAfterLoop ==
    /\ pc = "failed_attempt"
    /\ ~(extract_attempt < EXTRACT_MAX_RETRIES - 1)
    /\ exception' = "RuntimeError"
    /\ pc' = "raised"
    /\ UNCHANGED <<rows, fn_vars, req_vars, mask_vars, num_vars,
                   extract_attempt, gemini_api_key, calls, waits, page_result>>

NextExtract ==
    \/ GetClient
    \/ CallModel
    \/ Sleep
    \/ RaiseAfterLoop

SpecExtract == InitExtract /\ [][NextExtract]_vars

\* the thread that runs extract_page goes on running: a call of the model
\* returns or raises, and a sleep ends
SpecExtractFair == SpecExtract /\ WF_vars(NextExtract)


-----------------------------------------------------------------------------
(* Properties of validar_aritmetica.  They are stated on the input rows     *)
(* alone, with definitions of their own for "statement group", "mask" and   *)
(* "direct child".                                                          *)

Called == pc \in {"validated", "revalidated"}

RefGroup(r) == <<r.Tipo, r.Periodo, r.Pagina_Origem>>

RefGroups(rs) == {RefGroup(rs[i]) : i \in 1..Len(rs)}

RefBlank(m) == \A i \in 1..Len(m) : m[i] = " "

\* the mask of a row, without the blanks around it
RefMask(r) ==
    LET m == r.Mascara_Contabil
    IN  IF RefBlank(m) THEN <<>>
        ELSE LET a == CHOOSE i \in 1..Len(m) :
                          m[i] # " " /\ \A j \in 1..(i - 1) : m[j] = " "
                 b == CHOOSE i \in 1..Len(m) :
                          m[i] # " " /\ \A j \in (i + 1)..Len(m) : m[j] = " "
             IN  SubSeq(m, a, b)

\* the indices of the rows of group g that carry mask m
RefIndices(rs, g, m) ==
    {i \in 1..Len(rs) : RefGroup(rs[i]) = g /\ RefMask(rs[i]) = m}

RefMasks(rs, g) ==
    {RefMask(rs[i]) : i \in {j \in 1..Len(rs) :
                                RefGroup(rs[j]) = g /\ RefMask(rs[j]) # <<>>}}

\* the first row of group g that carries mask m
RefFirst(rs, g, m) ==
    rs[CHOOSE i \in RefIndices(rs, g, m) : \A j \in RefIndices(rs, g, m) : i <= j]

\* y is x, a separator, and one more segment
RefIsChild(x, y) ==
    /\ Len(y) > Len(x)
    /\ \A i \in 1..Len(x) : y[i] = x[i]
    /\ y[Len(x) + 1] = "."
    /\ \A i \in (Len(x) + 2)..Len(y) : y[i] # "."

RefChildren(rs, g, x) == {y \in RefMasks(rs, g) : RefIsChild(x, y)}

RefSumAtual(rs, g, x) ==
    Sum([y \in RefChildren(rs, g, x) |-> RefFirst(rs, g, y).Ano_Atual],
        RefChildren(rs, g, x))

RefSumAnt(rs, g, x) ==
    Sum([y \in RefChildren(rs, g, x) |-> RefFirst(rs, g, y).Ano_Anterior],
        RefChildren(rs, g, x))

RefDiffAtual(rs, g, x) == RefSumAtual(rs, g, x) - RefFirst(rs, g, x).Ano_Atual

RefDiffAnt(rs, g, x) == RefSumAnt(rs, g, x) - RefFirst(rs, g, x).Ano_Anterior

\* the parents of the input: a group and a mask of it with a direct child
RefParents(rs) ==
    {p \in UNION {{<<g, x>> : x \in RefMasks(rs, g)} : g \in RefGroups(rs)} :
        RefChildren(rs, p[1], p[2]) # {}}

\* the positions of the reports that name mask x on page pagina
ReportsNaming(errs, pagina, x) ==
    {i \in 1..Len(errs) : errs[i].pagina = pagina /\ errs[i].erro.parent_mask = x}

\* the periods of parent p whose children sum is off by more than 1.0
PeriodsBeyond(rs, p) ==
    (IF Abs(RefDiffAtual(rs, p[1], p[2])) > Tolerancia THEN 1 ELSE 0)
    + (IF Abs(RefDiffAnt(rs, p[1], p[2])) > Tolerancia THEN 1 ELSE 0)

\* the example of the specification: parent 100.00, first child 60.00
ExampleRows(second_child) ==
    <<Row("BP", "09/2023", "PDF1-P1", "Ativo", M_1, 0, 10000),
      Row("BP", "09/2023", "PDF1-P1", "Caixa", M_1_01, 0, 6000),
      Row("BP", "09/2023", "PDF1-P1", "Bancos", M_1_02, 0, second_child)>>

ExampleReport ==
    [pagina |-> "PDF1-P1",
     erro   |-> [parent_mask |-> M_1, conta_pai |-> "Ativo",
                 soma_filhos_atual |-> 10150, valor_pai_atual |-> 10000,
                 diff_atual |-> 150,
                 soma_filhos_ant |-> 0, valor_pai_ant |-> 0, diff_ant |-> 0]]

\* with children 60.00 and 41.50 the parent is reported: expected 101.50,
\* found 100.00, diff 1.50
ExampleReported == validar_aritmetica(ExampleRows(4150)) = {<<ExampleReport>>}

\* with children 60.00 and 40.00 it is not
ExampleNotReported == validar_aritmetica(ExampleRows(4000)) = {<<>>}

\* C1: a mask with a direct child in its group is reported if and only if the
\* children's sum is off by more than 1.0 (strictly) in Ano_Atual or in
\* Ano_Anterior, and the report carries the sum, the parent's value and the
\* difference; parent 100.00 with children 60.00 and 41.50 is reported with
\* expected 101.50, found 100.00, diff 1.50, and with 60.00 and 40.00 it is not.
C1_ReportedIffBeyondTolerance ==
    /\ Called =>
          \A p \in RefParents(rows) :
             LET g == p[1]
                 x == p[2]
                 named == ReportsNaming(errors, g[3], x)
             IN  /\ (named # {}) <=> (PeriodsBeyond(rows, p) > 0)
                 /\ \A i \in named :
                       /\ errors[i].erro.soma_filhos_atual = RefSumAtual(rows, g, x)
                       /\ errors[i].erro.valor_pai_atual = RefFirst(rows, g, x).Ano_Atual
                       /\ errors[i].erro.diff_atual = RefDiffAtual(rows, g, x)
                       /\ errors[i].erro.soma_filhos_ant = RefSumAnt(rows, g, x)
                       /\ errors[i].erro.valor_pai_ant = RefFirst(rows, g, x).Ano_Anterior
                       /\ errors[i].erro.diff_ant = RefDiffAnt(rows, g, x)
    /\ ExampleReported
    /\ ExampleNotReported

\* a parent with two children whose sum is off by 1.5 is reported
C1_Witness ==
    /\ pc = "validated"
    /\ \E p \in RefParents(rows) :
          /\ Cardinality(RefChildren(rows, p[1], p[2])) = 2
          /\ RefDiffAtual(rows, p[1], p[2]) = 150
          /\ RefDiffAnt(rows, p[1], p[2]) = 0
          /\ ReportsNaming(errors, p[1][3], p[2]) # {}

\* C2 as stated: the number of reports naming a parent is the number of
\* periods that are beyond the tolerance (two when both are).
C2_OneReportPerPeriod ==
    Called =>
       \A p \in RefParents(rows) :
          Cardinality(ReportsNaming(errors, p[1][3], p[2])) = PeriodsBeyond(rows, p)

\* C2 as amended: a parent is named by one report when at least one period is
\* beyond the tolerance (that report carries both periods) and by none
\* otherwise; it is never named twice.
C2_OneCombinedReport ==
    Called =>
       \A p \in RefParents(rows) :
          Cardinality(ReportsNaming(errors, p[1][3], p[2]))
             = (IF PeriodsBeyond(rows, p) > 0 THEN 1 ELSE 0)

\* both periods of a parent are beyond the tolerance, and one report names it
C2_Witness ==
    /\ pc = "validated"
    /\ \E p \in RefParents(rows) :
          /\ PeriodsBeyond(rows, p) = 2
          /\ Cardinality(ReportsNaming(errors, p[1][3], p[2])) = 1

\* the masks of the input
RefAllMasks(rs) == UNION {RefMasks(rs, g) : g \in RefGroups(rs)}

\* C3: the sums of a report range over exactly the masks of the group that
\* are the parent, a separator and one more segment; a deeper descendant adds
\* nothing and does not make a mask a parent; "1.01" is a direct child of "1",
\* "1.01.01" of "1.01", and "1.01.01" is not one of "1".
C3_OnlyDirectChildren ==
    /\ Called =>
          /\ \A i \in 1..Len(errors) :
                LET g == RefGroup(rows[CHOOSE j \in 1..Len(rows) :
                                          rows[j].Pagina_Origem = errors[i].pagina])
                    x == errors[i].erro.parent_mask
                IN  /\ RefChildren(rows, g, x) # {}
                    /\ errors[i].erro.soma_filhos_atual = RefSumAtual(rows, g, x)
                    /\ errors[i].erro.soma_filhos_ant = RefSumAnt(rows, g, x)
          /\ \A x, y \in RefAllMasks(rows) :
                _is_direct_child(x, y) <=> RefIsChild(x, y)
    /\ _is_direct_child(M_1, M_1_01)
    /\ _is_direct_child(M_1_01, M_1_01_01)
    /\ ~_is_direct_child(M_1, M_1_01_01)

\* "1" is reported with the value of "1.01" alone as its sum, although
\* "1.01.01" carries a value too
C3_Witness ==
    /\ pc = "validated"
    /\ \E i \in 1..Len(errors) :
          /\ errors[i].erro.parent_mask = M_1
          /\ errors[i].erro.soma_filhos_atual = 150
    /\ \E j \in 1..Len(rows) :
          RefMask(rows[j]) = M_1_01_01 /\ rows[j].Ano_Atual = 150

\* the rows of group g
RefRowsOf(rs, g) == SelectSeq(rs, LAMBDA r : RefGroup(r) = g)

Occurrences(seq, x) == Cardinality({i \in 1..Len(seq) : seq[i] = x})

\* what validar_aritmetica returns for the rows of group g alone
Isolated(rs, g) == CHOOSE e \in validar_aritmetica(RefRowsOf(rs, g)) : TRUE

\* C4: the reports are those of each statement group (Tipo, Periodo,
\* Pagina_Origem) validated alone: each report occurs as often in the result
\* as in the results of the groups taken one by one, so the rows of the other
\* groups add, remove and change nothing.
C4_GroupsIsolated ==
    Called =>
       LET G == RefGroups(rows)
           reports == {errors[i] : i \in 1..Len(errors)}
                         \cup UNION {{Isolated(rows, g)[i] :
                                         i \in 1..Len(Isolated(rows, g))} : g \in G}
       IN  \A x \in reports :
              Occurrences(errors, x)
                 = Sum([g \in G |-> Occurrences(Isolated(rows, g), x)], G)

\* a parent is reported while another group holds a row whose mask is a
\* direct child of it, with a value that would change the sum
C4_Witness ==
    /\ pc = "validated"
    /\ \E i \in 1..Len(errors), j, k \in 1..Len(rows) :
          /\ errors[i].erro.parent_mask = M_1
          /\ RefMask(rows[k]) = M_1
          /\ rows[k].Pagina_Origem = errors[i].pagina
          /\ RefMask(rows[j]) = M_1_01
          /\ RefGroup(rows[j]) # RefGroup(rows[k])
          /\ rows[j].Ano_Atual # errors[i].erro.soma_filhos_atual

\* the rows that remain when the rows without a mask and the later rows of a
\* mask already seen in the same group are dropped from the first n rows
RECURSIVE RefFirstOnly(_, _)
RefFirstOnly(rs, n) ==
    IF n = 0 THEN <<>>
    ELSE IF /\ RefMask(rs[n]) # <<>>
            /\ \A j \in 1..(n - 1) :
                  ~(RefGroup(rs[j]) = RefGroup(rs[n]) /\ RefMask(rs[j]) = RefMask(rs[n]))
         THEN Append(RefFirstOnly(rs, n - 1), rs[n])
         ELSE RefFirstOnly(rs, n - 1)

\* C5: the result is a result of the input without its rows of empty mask
\* and without the later rows of a mask already seen in the group, and the
\* parent's value in a report is that of the first row with the mask.
C5_FirstRowOfMaskOnly ==
    Called =>
       /\ errors \in validar_aritmetica(RefFirstOnly(rows, Len(rows)))
       /\ \A i \in 1..Len(errors) :
             LET g == RefGroup(rows[CHOOSE j \in 1..Len(rows) :
                                       rows[j].Pagina_Origem = errors[i].pagina])
                 x == errors[i].erro.parent_mask
             IN  errors[i].erro.valor_pai_atual = RefFirst(rows, g, x).Ano_Atual

\* a report on an input where a later row repeats, with another value, the
\* mask of the reported parent or of one of its children
C5_Witness ==
    /\ pc = "validated"
    /\ \E k \in 1..Len(errors), i, j \in 1..Len(rows) :
          /\ i < j
          /\ RefMask(rows[i]) # <<>>
          /\ RefMask(rows[i]) = RefMask(rows[j])
          /\ rows[i].Ano_Atual # rows[j].Ano_Atual
          /\ \/ errors[k].erro.parent_mask = RefMask(rows[i])
             \/ RefIsChild(errors[k].erro.parent_mask, RefMask(rows[i]))

\* C6: two runs on the same rows return the same sequence of reports.
C6_SameOrderEveryRun ==
    pc = "revalidated" => errors = errors_prev

-----------------------------------------------------------------------------
(* Properties of deduplicate *)

RefKey(r) == <<r.Tipo, r.Mascara_Contabil, r.Conta, r.Pagina_Origem>>

\* the positions of the rows that carry key k
RefWithKey(rs, k) == {i \in 1..Len(rs) : RefKey(rs[i]) = k}

RefFirstIndex(rs, k) ==
    CHOOSE i \in RefWithKey(rs, k) : \A j \in RefWithKey(rs, k) : i <= j

\* C8: deduplicate returns one row for each key (Tipo, Mascara_Contabil,
\* Conta, Pagina_Origem) of its input and no other row, in the order of the
\* keys' first occurrences; its two values are the sums over the rows of the
\* key and its other fields are those of the first of them.
C8_OneRowPerKey ==
    pc = "deduped" =>
       /\ {RefKey(dedup1[i]) : i \in 1..Len(dedup1)} = {RefKey(rows[i]) : i \in 1..Len(rows)}
       /\ \A i, j \in 1..Len(dedup1) :
             i < j => RefFirstIndex(rows, RefKey(dedup1[i]))
                         < RefFirstIndex(rows, RefKey(dedup1[j]))
       /\ \A i \in 1..Len(dedup1) :
             LET k == RefKey(dedup1[i])
                 same == RefWithKey(rows, k)
             IN  dedup1[i] =
                    [rows[RefFirstIndex(rows, k)] EXCEPT
                        !.Ano_Anterior = Sum([n \in same |-> rows[n].Ano_Anterior], same),
                        !.Ano_Atual    = Sum([n \in same |-> rows[n].Ano_Atual], same)]

\* rows of two keys, one of them repeated with another period and other values
C8_Witness ==
    /\ pc = "deduped"
    /\ Len(dedup1) = 2
    /\ \E i, j \in 1..Len(rows) :
          /\ i < j
          /\ RefKey(rows[i]) = RefKey(rows[j])
          /\ rows[i].Periodo # rows[j].Periodo
          /\ rows[i].Ano_Anterior # rows[j].Ano_Anterior

\* C9: deduplicate applied to its own result returns that result.
C9_Idempotent ==
    pc = "deduped_twice" => dedup2 = dedup1

\* the second application, on the result of an input with a repeated key
C9_Witness ==
    /\ pc = "deduped_twice"
    /\ Len(dedup1) < Len(rows)
    /\ Len(dedup2) >= 2

\* the rows that agree with r on Tipo, Mascara_Contabil, Conta and page
RefSamePage(rs, r) ==
    {n \in 1..Len(rs) :
        /\ rs[n].Tipo = r.Tipo
        /\ rs[n].Mascara_Contabil = r.Mascara_Contabil
        /\ rs[n].Conta = r.Conta
        /\ rs[n].Pagina_Origem = r.Pagina_Origem}

\* C10: of two rows that agree on Tipo, Mascara_Contabil and Conta and come
\* from different pages, each has its own row in the result, whose values are
\* the sums over the rows of its own page only.
C10_PagesNeverMerged ==
    pc = "deduped" =>
       \A i, j \in 1..Len(rows) :
          (/\ rows[i].Tipo = rows[j].Tipo
           /\ rows[i].Mascara_Contabil = rows[j].Mascara_Contabil
           /\ rows[i].Conta = rows[j].Conta
           /\ rows[i].Pagina_Origem # rows[j].Pagina_Origem)
          => \E a, b \in 1..Len(dedup1) :
                /\ a # b
                /\ RefSamePage(rows, dedup1[a]) = RefSamePage(rows, rows[i])
                /\ RefSamePage(rows, dedup1[b]) = RefSamePage(rows, rows[j])
                /\ dedup1[a].Ano_Atual =
                      Sum([n \in RefSamePage(rows, rows[i]) |-> rows[n].Ano_Atual],
                          RefSamePage(rows, rows[i]))
                /\ dedup1[a].Ano_Anterior =
                      Sum([n \in RefSamePage(rows, rows[i]) |-> rows[n].Ano_Anterior],
                          RefSamePage(rows, rows[i]))

\* the same account on two pages, one page twice: two rows come out
C10_Witness ==
    /\ pc = "deduped"
    /\ Len(rows) = 3
    /\ Len(dedup1) = 2
    /\ dedup1[1].Pagina_Origem # dedup1[2].Pagina_Origem
    /\ dedup1[1].Tipo = dedup1[2].Tipo
    /\ dedup1[1].Mascara_Contabil = dedup1[2].Mascara_Contabil
    /\ dedup1[1].Conta = dedup1[2].Conta


-----------------------------------------------------------------------------
(* The inconsistencies and the rendering layer *)

\* entry e of an error list is an arithmetic report that names mask x
IsReportOf(e, x) ==
    /\ "parent_mask" \in DOMAIN e.erro
    /\ e.erro.parent_mask = x

\* the parents of rs whose children sum is off by more than 1.0 in a period
RefInconsistencies(rs) == {p \in RefParents(rs) : PeriodsBeyond(rs, p) > 0}

\* C7: when a request to /extract has answered, every arithmetic
\* inconsistency of the final rows (a parent whose direct children's sum
\* differs from it by more than 1.0 in its statement group) has a report in
\* the error list handed to build_xlsx together with those rows.
C7_InconsistenciesRendered ==
    pc = "done" =>
        \A p \in RefInconsistencies(xlsx_rows) :
            \E j \in 1..Len(xlsx_errors) :
                /\ xlsx_errors[j].pagina = p[1][3]
                /\ IsReportOf(xlsx_errors[j], p[2])


-----------------------------------------------------------------------------
(* The mask-inference threshold *)

\* the number of rows of rs without a mask
RefMissing(rs) ==
    Cardinality({i \in 1..Len(rs) : RefBlank(rs[i].Mascara_Contabil)})

\* C11: gerar_mascaras is called if and only if the rows are not empty and
\* at least four fifths of them (0.80) have no mask, the counts taken on the
\* rows as consolidated: 3 missing of 5 does not call it, 9 missing of 10
\* and 4 missing of 5 do.
C11_CalledIffThreshold ==
    pc = "mask_step_done" =>
        /\ mask_call <=> (rows # <<>> /\ 5 * RefMissing(rows) >= 4 * Len(rows))
        /\ Len(rows) = 5 /\ RefMissing(rows) = 3 => ~mask_call
        /\ Len(rows) = 10 /\ RefMissing(rows) = 9 => mask_call
        /\ Len(rows) = 5 /\ RefMissing(rows) = 4 => mask_call

\* the boundary: 4 rows of 5 without a mask, and the call was made
C11_Witness ==
    /\ pc = "mask_step_done"
    /\ Len(rows) = 5
    /\ RefMissing(rows) = 4
    /\ mask_call


-----------------------------------------------------------------------------
(* The merge of the suggestions *)

\* position of the first suggestion of updates whose mask is null, or
\* Len(updates) + 1
RefMalformedAt(updates) ==
    IF \E j \in 1..Len(updates) : updates[j].mascara = None
    THEN CHOOSE j \in 1..Len(updates) :
            /\ updates[j].mascara = None
            /\ \A h \in 1..(j - 1) : updates[h].mascara # None
    ELSE Len(updates) + 1

\* attempt k of the run got a well-formed list
RefSucceeds(run, k) ==
    /\ ~run.responses[k].failed
    /\ RefMalformedAt(run.responses[k].updates) > Len(run.responses[k].updates)

\* the attempts the run makes: up to the first that succeeds
RefAttempts(run) ==
    {k \in 1..MAX_RETRIES : \A h \in 1..(k - 1) : ~RefSucceeds(run, h)}

\* the suggestions (attempt, position) of the run that reach application
\* with a mask that is not blank for the row at 0-based index idx
RefSuggestions(run, idx) ==
    UNION {{<<k, j>> : j \in {h \in 1..(RefMalformedAt(run.responses[k].updates) - 1) :
                                /\ run.responses[k].updates[h].index = <<idx>>
                                /\ ~RefBlank(run.responses[k].updates[h].mascara)}} :
           k \in {a \in RefAttempts(run) : ~run.responses[a].failed}}

\* the earliest of them
RefFirstSuggestion(run, idx) ==
    LET first == CHOOSE s \in RefSuggestions(run, idx) :
                    \A t \in RefSuggestions(run, idx) :
                        s[1] < t[1] \/ (s[1] = t[1] /\ s[2] <= t[2])
    IN  run.responses[first[1]].updates[first[2]].mascara

\* the call reaches the collaborator: a key, and a row whose mask is ""
RefReaches(rs, run) ==
    /\ run.api_key
    /\ \E i \in 1..Len(rs) : rs[i].Mascara_Contabil = <<>>

\* C12: after gerar_mascaras has applied its suggestions, a row differs
\* from what it was only if its mask was empty and a suggestion with a
\* non-empty mask named its index; its mask is then the first such
\* suggestion (without the blanks around it) and its other fields are as
\* before. Rows with a mask, and rows named by no suggestion in range, are
\* as before; no row is added or removed.
C12_OnlyEmptyMasksFilled ==
    pc = "masks_generated" =>
        /\ Len(masked) = Len(rows)
        /\ \A i \in 1..Len(rows) :
              masked[i] =
                 IF /\ RefReaches(rows, mask_run)
                    /\ RefBlank(rows[i].Mascara_Contabil)
                    /\ RefSuggestions(mask_run, i - 1) # {}
                 THEN [rows[i] EXCEPT !.Mascara_Contabil =
                          RefMask([Mascara_Contabil |->
                                      RefFirstSuggestion(mask_run, i - 1)])]
                 ELSE rows[i]

\* a second suggestion for the first row and one out of range were met:
\* the row has the first suggested mask, the second row kept its own
C12_Witness ==
    /\ pc = "masks_generated"
    /\ mask_run.api_key
    /\ mask_run.responses[1] =
          [failed |-> FALSE,
           updates |-> <<Upd(0, M_1), Upd(0, M_1_01), Upd(9, M_1)>>]
    /\ Len(rows) = 2
    /\ rows[1].Mascara_Contabil = M_empty
    /\ rows[2].Mascara_Contabil = M_1_02
    /\ masked[1].Mascara_Contabil = M_1
    /\ masked[2] = rows[2]

\* every attempt of the run fails: no key, or each attempt raised, gave
\* no JSON, or met a malformed suggestion
RefRunFails(run) ==
    \/ ~run.api_key
    \/ \A k \in 1..MAX_RETRIES : ~RefSucceeds(run, k)

\* C13: when the collaborator is unavailable or every attempt fails,
\* gerar_mascaras returns and every row whose mask was empty before the
\* call still has an empty mask.
C13_FailureLeavesMasksEmpty ==
    pc = "masks_generated" /\ RefRunFails(mask_run) =>
        /\ Len(masked) = Len(rows)
        /\ \A i \in 1..Len(rows) :
              RefBlank(rows[i].Mascara_Contabil)
                 => RefBlank(masked[i].Mascara_Contabil)


-----------------------------------------------------------------------------
(* The consolidated rows *)

\* the rows of the pages before page i
RefOffset(exts, i) ==
    Sum([j \in 1..(i - 1) |-> Len(exts[j].rows.items)], 1..(i - 1))

\* the number a row of the drawn pages carries
RefNumber(v) == IF v = Null THEN 0 ELSE v.value

\* C14: consolidate neither filters, merges nor reorders: its output is the
\* concatenation, in page order, of each page's rows in within-page order;
\* its length is the sum of the pages' row counts, and the k-th row of page
\* i carries the label of page i, the period of page i, one type for the
\* whole page, and the account, mask and values of that row.
C14_ConcatenationInOrder ==
    pc = "consolidated" =>
        /\ Len(rows) = RefOffset(all_extractions, Len(all_extractions) + 1)
        /\ \A i \in 1..Len(all_extractions) :
              \A k \in 1..Len(all_extractions[i].rows.items) :
                 LET row  == rows[RefOffset(all_extractions, i) + k]
                     item == all_extractions[i].rows.items[k]
                 IN  /\ row.Pagina_Origem = all_labels[i]
                     /\ row.Periodo = all_extractions[i].periodo
                     /\ row.Tipo = rows[RefOffset(all_extractions, i) + 1].Tipo
                     /\ row.Conta = item.Conta
                     /\ row.Mascara_Contabil = RefMask(item)
                     /\ row.Ano_Anterior = RefNumber(item.Ano_Anterior)
                     /\ row.Ano_Atual = RefNumber(item.Ano_Atual)

\* two pages under the same label, the second with the same row twice and
\* no mask: four rows come out
C14_Witness ==
    /\ pc = "consolidated"
    /\ Len(all_extractions) = 2
    /\ all_labels = <<"PDF2-P1", "PDF2-P1">>
    /\ all_extractions[1].rows.items = <<ItemAtivo, ItemCaixa>>
    /\ all_extractions[2].rows.items = <<ItemCaixa, ItemCaixa>>
    /\ Len(rows) = 4
    /\ rows[3] = rows[4]


-----------------------------------------------------------------------------
(* The type of a page *)

\* the drawn type values that are DRE in some case or hold a keyword
RefDreTypes ==
    {<<"D", "R", "E">>, <<"d", "r", "e">>, <<" ", "D", "r", "e", " ">>,
     <<"L", "U", "C", "R", "O", "S">>,
     <<"P", "r", "e", "j", "u", "I_acute", "z", "o">>}

\* every row of every page has the type its page's value stands for
RefTypesClassified ==
    \A i \in 1..Len(all_extractions) :
        \A k \in 1..Len(all_extractions[i].rows.items) :
            rows[RefOffset(all_extractions, i) + k].Tipo =
                IF all_extractions[i].type \in RefDreTypes THEN "DRE" ELSE "BP"

\* C19: type classification is total: for every type value of a page (DRE
\* in any case, a text with a keyword, any other text, empty, absent, null
\* or no text at all) consolidate returns, and every row has Tipo DRE if the
\* value is DRE or holds a keyword and BP otherwise.
C19_TypeTotal ==
    pc # "input" => pc = "consolidated" /\ RefTypesClassified


-----------------------------------------------------------------------------
(* The pages of a request *)

\* the pages of the request: (document, page number)
RefPositions ==
    UNION {{<<d, n>> : n \in 1..Len(pdf_groups[d])} : d \in 1..Len(pdf_groups)}

RefLabels == {pdf_groups[p[1]][p[2]] : p \in RefPositions}

\* the document and page number of the page labelled l
RefPos(l) == CHOOSE p \in RefPositions : pdf_groups[p[1]][p[2]] = l

\* page l1 comes before page l2 in document-then-page order
RefBefore(l1, l2) ==
    \/ RefPos(l1)[1] < RefPos(l2)[1]
    \/ RefPos(l1)[1] = RefPos(l2)[1] /\ RefPos(l1)[2] < RefPos(l2)[2]

\* extract_page returned for page l a result whose rows are a list
RefHasRowList(l) ==
    /\ l \in DOMAIN extracted
    /\ ~extracted[l].raised
    /\ extracted[l].result.rows.is_list

\* C15: whatever the order in which the workers of the documents end, the
\* extractions and labels the endpoint has gathered for consolidate are in
\* document order and, within a document, in page order; every extraction
\* is the one extract_page returned for the page of its label, and no page
\* with a row list of a gathered document is missing.
C15_GatheredInDocumentOrder ==
    /\ Len(all_extractions) = Len(all_labels)
    /\ \A i \in 1..Len(all_labels) :
          /\ \A j \in (i + 1)..Len(all_labels) :
                RefBefore(all_labels[i], all_labels[j])
          /\ RefHasRowList(all_labels[i])
          /\ extracted[all_labels[i]].result.type = all_extractions[i].type
          /\ extracted[all_labels[i]].result.rows = all_extractions[i].rows
    /\ \A p \in RefPositions :
          p[1] <= collected /\ RefHasRowList(pdf_groups[p[1]][p[2]])
             => \E i \in 1..Len(all_labels) : all_labels[i] = pdf_groups[p[1]][p[2]]

\* the second document ended first, and the answer has the pages of the
\* first document before it
C15_Witness ==
    /\ pc = "done"
    /\ finished = <<2, 1>>
    /\ all_labels = <<"PDF1-P1", "PDF1-P2", "PDF2-P1">>

\* the pages whose extraction raised or whose result has no list of row
\* objects
RefFailedPages ==
    {l \in DOMAIN extracted :
        \/ extracted[l].raised
        \/ ~extracted[l].result.rows.is_list
        \/ \E k \in 1..Len(extracted[l].result.rows.items) :
              extracted[l].result.rows.items[k] = NonObject}

\* C16: when a request has ended, a page whose extraction failed or whose
\* result has no well-formed row list has handed no extraction to
\* consolidate and no row to the workbook, has exactly one error entry
\* under its label in the error list of the workbook, and has stopped
\* neither the other pages nor the request: every page was processed, and
\* the request failed only if some page it kept has a type that is no text.
C16_FailedPageContained ==
    pc \in {"done", "failed"} =>
        \A l \in RefFailedPages :
            /\ \A i \in 1..Len(all_labels) : all_labels[i] # l
            /\ Cardinality({j \in 1..Len(all_errors) : all_errors[j].pagina = l}) = 1
            /\ DOMAIN extracted = RefLabels
            /\ pc = "failed" =>
                  \E i \in 1..Len(all_extractions) : all_extractions[i].type = None
            /\ pc = "done" =>
                  /\ xlsx_errors = all_errors
                  /\ \A i \in 1..Len(xlsx_rows) : xlsx_rows[i].Pagina_Origem # l

\* C17: a request whose consolidation yields zero rows does not answer
\* with a workbook: a successful answer carries at least one row.
C17_ZeroRowsFail ==
    response = 200 => xlsx_rows # <<>>

\* the period document d is locked to: that of its first page whose result
\* reports one ("" if none does)
RefLockedPeriodo(d) ==
    LET reporting == {n \in 1..Len(pdf_groups[d]) :
                         /\ pdf_groups[d][n] \in DOMAIN extracted
                         /\ ~extracted[pdf_groups[d][n]].raised
                         /\ extracted[pdf_groups[d][n]].result.periodo # ""}
    IN  IF reporting = {} THEN ""
        ELSE extracted[pdf_groups[d][CHOOSE n \in reporting :
                                        \A m \in reporting : n <= m]].result.periodo

\* C18: in the workbook, all rows from pages of one document carry one
\* Periodo: the period of the first page of the document that reports one.
C18_OnePeriodPerDocument ==
    pc = "done" =>
        \A i \in 1..Len(xlsx_rows) :
            xlsx_rows[i].Periodo =
                RefLockedPeriodo(RefPos(xlsx_rows[i].Pagina_Origem)[1])


-----------------------------------------------------------------------------
(* The separators of a number *)

\* C20: normalize_number takes the later of "." and "," for the decimal
\* point and drops the other one, takes a lone kind of "," for the decimal
\* point, and negates a text in parentheses: each drawn text with both
\* separators or with commas only, bare, after "R$" or in parentheses,
\* gives the value it writes, negated in parentheses. "R$ 1.234,56" and
\* "1,234.56" give 1234.56 and "(1.234,56)" gives -1234.56.
C20_LaterSeparatorIsDecimal ==
    pc = "normalized" =>
        /\ \A c \in SeparatorTexts, w \in SignedWrappers :
              raw_value = Text(Wrap(w, c.text)) => number = w.sign * c.cents
        /\ raw_value = Text(<<"R", "$", " ", "1", ".", "2", "3", "4", ",", "5", "6">>)
              => number = 123456
        /\ raw_value = Text(<<"1", ",", "2", "3", "4", ".", "5", "6">>)
              => number = 123456
        /\ raw_value = Text(<<"(", "1", ".", "2", "3", "4", ",", "5", "6", ")">>)
              => number = -123456

\* "(1,234.56)" was normalized to -1234.56
C20_Witness ==
    /\ pc = "normalized"
    /\ raw_value = Text(<<"(", "1", ",", "2", "3", "4", ".", "5", "6", ")">>)
    /\ number = -123456


-----------------------------------------------------------------------------
(* The rolling context and the lists of a worker *)

\* extract_page returned for page l a result that was kept
RefAccepted(l) == RefHasRowList(l) /\ l \notin RefFailedPages

\* the pages of the document of page l that come before it and were kept
RefEarlierAccepted(l) ==
    {n \in 1..(RefPos(l)[2] - 1) : RefAccepted(pdf_groups[RefPos(l)[1]][n])}

\* the summary of a result: nothing without rows, else the type, and the
\* account and mask of the first and of the last row
RefSummary(result) ==
    IF Len(result.rows.items) = 0 THEN <<>>
    ELSE LET first == Head(result.rows.items)
             last  == result.rows.items[Len(result.rows.items)]
         IN  <<result.type, first.Conta, first.Mascara_Contabil,
               last.Conta, last.Mascara_Contabil>>

\* C21: the context given to the extraction of a page is the summary of
\* the latest earlier page of the same document that was kept as valid:
\* empty for a page with no such page before it, empty after a kept page
\* without rows, unchanged by pages that raised or were rejected, and never
\* taken from another document.
C21_ContextOfLatestAcceptedPage ==
    \A l \in DOMAIN contexts :
        contexts[l] =
            IF RefEarlierAccepted(l) = {} THEN <<>>
            ELSE RefSummary(extracted[pdf_groups[RefPos(l)[1]][
                    CHOOSE n \in RefEarlierAccepted(l) :
                        \A m \in RefEarlierAccepted(l) : m <= n]].result)

\* page 1 was kept, page 2 raised, page 3 was given the summary of page 1,
\* and the page of the second document was given no context
C21_Witness ==
    /\ DOMAIN contexts = {"PDF1-P1", "PDF1-P2", "PDF1-P3", "PDF2-P1"}
    /\ extracted["PDF1-P1"] = [raised |-> FALSE, result |-> InconsistentPage]
    /\ extracted["PDF1-P2"] = [raised |-> TRUE]
    /\ contexts["PDF1-P3"] = <<<<"B", "P">>, "Ativo", M_1, "Bancos", M_1_02>>
    /\ contexts["PDF2-P1"] = <<>>
    /\ finished[1] = 1


\* the number of positions of seq that satisfy Test
CountIn(seq, Test(_)) == Cardinality({i \in 1..Len(seq) : Test(seq[i])})

\* C22: after _process_pdf_pages has handled some of the pages of a
\* document, its lists extractions and labels have one length, labels[i]
\* is the label of the page extractions[i] came from, both are in page
\* order, and every handled page has given exactly one thing: a pair of
\* extraction and label, or an error entry under its label. When the call
\* returns, len(extractions) + len(errors) is the number of pages.
C22_OnePairOrOneErrorPerPage ==
    \A d \in 1..Len(pdf_groups) :
        LET w     == worker[d]
            pages == pdf_groups[d]
        IN  /\ Len(w.extractions) = Len(w.labels)
            /\ \A i \in 1..Len(w.labels) :
                  /\ \E n \in 1..(w.next - 1) : pages[n] = w.labels[i]
                  /\ \A j \in (i + 1)..Len(w.labels) :
                        RefBefore(w.labels[i], w.labels[j])
                  /\ extracted[w.labels[i]].result.type = w.extractions[i].type
                  /\ extracted[w.labels[i]].result.rows = w.extractions[i].rows
            /\ \A j \in 1..Len(w.errors) :
                  \E n \in 1..(w.next - 1) : pages[n] = w.errors[j].pagina
            /\ \A n \in 1..(w.next - 1) :
                  CountIn(w.labels, LAMBDA l : l = pages[n])
                     + CountIn(w.errors, LAMBDA e : e.pagina = pages[n]) = 1
            /\ Len(w.extractions) + Len(w.errors) = w.next - 1
            /\ ~w.raised /\ w.next > Len(pages)
                  => Len(w.extractions) + Len(w.errors) = Len(pages)

\* the call for a document of three pages has returned one pair, for the
\* second page, and two error entries
C22_Witness ==
    /\ Len(pdf_groups[1]) = 3
    /\ ~worker[1].raised
    /\ worker[1].next = 4
    /\ worker[1].labels = <<"PDF1-P2">>
    /\ Len(worker[1].errors) = 2
    /\ worker[1].errors[1].erro # worker[1].errors[2].erro


-----------------------------------------------------------------------------
(* Properties of extract_page, stated on the history of its calls of the    *)
(* model and of its sleeps.                                                 *)

Terminated == pc \in {"returned", "raised"}

\* an attempt that failed by a call error or by unparseable JSON
RefFailedCallOrJson(c) == c.kind \in {"call_error", "bad_json"}

\* an attempt succeeds when the call gave a text that parses to a JSON
\* object with rows that have a length
RefAttemptSucceeds(c) ==
    /\ c.kind = "json"
    /\ c.value \in {v \in JsonValues : v.object /\ v.sized}

RefAllFailed ==
    /\ Len(calls) = 3
    /\ \A i \in 1..3 : ~RefAttemptSucceeds(calls[i])

\* at most three calls, no call after one that succeeded, and the result
\* returned is that of the call that succeeded
RefCallsAndResult ==
    /\ Len(calls) <= 3
    /\ \A i \in 1..(Len(calls) - 1) : ~RefAttemptSucceeds(calls[i])
    /\ pc = "returned" <=>
          (Len(calls) >= 1 /\ RefAttemptSucceeds(calls[Len(calls)]))
    /\ pc = "returned" => page_result = calls[Len(calls)].value.result

\* the waits are 2s, then 4s, one between two attempts and none after the
\* last attempt
RefWaitsBetweenAttempts ==
    /\ Len(waits) <= 2
    /\ \A i \in 1..Len(waits) : waits[i] = IF i = 1 THEN 2 ELSE 4
    /\ pc \in {"input", "attempt"} => Len(waits) = Len(calls)
    /\ pc = "failed_attempt" => Len(waits) = Len(calls) - 1
    /\ Terminated /\ calls # <<>> => Len(waits) = Len(calls) - 1
    /\ Terminated /\ calls = <<>> => waits = <<>>

\* C23 as stated: extract_page raises RuntimeError exactly when all three
\* attempts failed, by a call error or by unparseable JSON.
C23_RaisesIffThreeAttemptsFailed ==
    (pc = "raised" /\ exception = "RuntimeError")
        <=> /\ Terminated
            /\ Len(calls) = 3
            /\ \A i \in 1..3 : RefFailedCallOrJson(calls[i])

\* the safety part of C23, amended
C23_Safety ==
    /\ RefCallsAndResult
    /\ RefWaitsBetweenAttempts
    /\ pc = "raised" => exception = "RuntimeError"
    /\ pc = "raised" <=>
          /\ Terminated
          /\ \/ gemini_api_key = "" /\ calls = <<>>
             \/ gemini_api_key # "" /\ RefAllFailed
    /\ gemini_api_key = "" => calls = <<>>

\* C23, amended: extract_page always terminates after at most three calls
\* of the model; it returns the parsed result of the first attempt that
\* succeeds and makes no further call, waits (2s, then 4s) only between
\* attempts and not after the last one, and raises RuntimeError exactly
\* when GEMINI_API_KEY is not set (then without any call) or all three
\* attempts failed, where an attempt fails by a call error, a response
\* without text, unparseable JSON, or JSON that is no object with rows
\* that have a length.
C23_TerminatesWithinThreeCalls == []C23_Safety /\ <>Terminated

\* the third attempt succeeds after a response that parsed to a list and
\* one that was no JSON: two waits, and its result is returned
C23_Witness ==
    /\ pc = "returned"
    /\ Len(calls) = 3
    /\ calls[1].kind = "json"
    /\ calls[2].kind = "bad_json"
    /\ waits = <<2, 4>>
    /\ page_result = InconsistentPage

=============================================================================
